---- MODULE Spec2Model ----
(***************************************************************************)
(* Model of the word-granularity memory allocator of                       *)
(* src/src/MemoryManager.{h,cpp}: the arena lifecycle (initialize,         *)
(* shutdown), the two ledgers (holeList, allocatedList), allocate, free,   *)
(* mergeHoles, getList, getBitmap, the two placement strategies            *)
(* bestFit/worstFit and caller-supplied strategies.                        *)
(*                                                                         *)
(* Machine integers keep their width.  TLC's integers are 32-bit signed,   *)
(* so a C++ `unsigned int` (32 bits) is a pair <<hi, lo>> of 16-bit digits *)
(* and a `size_t` (64 bits) is a tuple of four 16-bit digits, most         *)
(* significant first; a C++ `int` and a `uint16_t` are plain integers.     *)
(***************************************************************************)
EXTENDS Integers, Sequences, FiniteSets, TLC

VARIABLES wordSize, allocator, memoryStart, memoryLimit, holeList,
          allocatedList, last, pre, fit, wide

vars == <<wordSize, allocator, memoryStart, memoryLimit, holeList,
          allocatedList, last, pre, fit, wide>>

(***************************************************************************)
(* Bounds of the model.                                                    *)
(***************************************************************************)
MaxCap == 2        \* small arena capacities are 1..MaxCap words
MaxBlocks == 3     \* allocate is explored while allocatedList stays this short
MaxHoles == 2      \* free is explored while holeList stays this short
MaxOffset == 2     \* allocate is explored while no block of the arena starts beyond this word
MaxWide == 2       \* allocate/free calls explored from an arena's first wide allocate on
MaxDeep == 4       \* the same budget in the deeper exploration SpecDeep

(***************************************************************************)
(* Program constants.                                                      *)
(***************************************************************************)
MAX_NUM_WORDS == 65535
nullptr == 0
MAP_FAILED == -1
MmapAddr == 4096   \* the address a successful mmap returns
Limb == 65536      \* 2^16, the base of the digit representation
INT_MIN == -2147483647 - 1          \* the least value of the strategy's int result
FarAddress == 2147483647            \* stands for every address too far past the
                                    \* arena base for a 32-bit model integer

WordSizes == {1, 2}                 \* constructor argument wordSize
Strategies == {"bestFit", "worstFit"}

\* caller-supplied strategies for setAllocator: each ignores its arguments
\* and returns one fixed int
CustomStrategies == {"always100", "alwaysMinus2", "alwaysIntMin"}

CustomResult(f) ==
    IF f = "always100" THEN 100
    ELSE IF f = "alwaysMinus2" THEN -2
    ELSE INT_MIN

(***************************************************************************)
(* unsigned int: <<hi, lo>>, value hi * 2^16 + lo, arithmetic mod 2^32.    *)
(***************************************************************************)
U32(n) == <<n \div Limb, n % Limb>>

U32Add(a, b) ==
    LET lo == a[2] + b[2]
        hi == a[1] + b[1] + (lo \div Limb)
    IN  <<hi % Limb, lo % Limb>>

U32Sub(a, b) ==
    LET borrow == IF a[2] < b[2] THEN 1 ELSE 0
        lo == a[2] - b[2] + Limb
        hi == a[1] - b[1] - borrow + Limb
    IN  <<hi % Limb, lo % Limb>>

U32Lt(a, b) == a[1] < b[1] \/ (a[1] = b[1] /\ a[2] < b[2])

\* static_cast<uint16_t>(x) of an unsigned int
U16(a) == a[2]

\* conversion unsigned int -> int (two's complement)
AsInt(a) ==
    IF a[1] >= 32768 THEN (a[1] - Limb) * Limb + a[2]
    ELSE a[1] * Limb + a[2]

\* conversion int -> unsigned int
IntToU32(n) ==
    IF n >= 0 THEN U32(n)
    ELSE LET m == (n + 2147483647) + 1
         IN  <<(m \div Limb) + 32768, m % Limb>>

\* a * w in unsigned int, for the small factors w of WordSizes
U32Scale(a, w) ==
    LET lo == a[2] * w
        hi == a[1] * w + (lo \div Limb)
    IN  <<hi % Limb, lo % Limb>>

\* pointer + unsigned int: the address itself while it fits a model
\* integer, FarAddress beyond that
PtrAdd(p, a) ==
    IF a[1] < 16384 THEN p + AsInt(a) ELSE FarAddress

(***************************************************************************)
(* size_t: <<d3, d2, d1, d0>>, arithmetic mod 2^64.                        *)
(***************************************************************************)
SizeT(n) == <<0, 0, n \div Limb, n % Limb>>

\* x + k for a small k >= 0
SizeAdd(x, k) ==
    LET s0 == x[4] + k
        s1 == x[3] + (s0 \div Limb)
        s2 == x[2] + (s1 \div Limb)
        s3 == x[1] + (s2 \div Limb)
    IN  <<s3 % Limb, s2 % Limb, s1 % Limb, s0 % Limb>>

\* x / w for a small w >= 1 (long division, digit by digit)
SizeDiv(x, w) ==
    LET q3 == x[1] \div w
        r3 == x[1] % w
        q2 == (r3 * Limb + x[2]) \div w
        r2 == (r3 * Limb + x[2]) % w
        q1 == (r2 * Limb + x[3]) \div w
        r1 == (r2 * Limb + x[3]) % w
        q0 == (r1 * Limb + x[4]) \div w
    IN  <<q3, q2, q1, q0>>

\* conversion size_t -> unsigned int
Narrow32(x) == <<x[3], x[4]>>

\* a - b of two byte addresses, as the size_t the subtraction is stored in
PtrDiff(a, b) ==
    IF a >= b THEN SizeT(a - b)
    ELSE <<Limb - 1, Limb - 1, Limb - 1 - ((b - a - 1) \div Limb),
           Limb - 1 - ((b - a - 1) % Limb)>>

(***************************************************************************)
(* Sequence helpers for the two std::list ledgers.                         *)
(***************************************************************************)
Erase(seq, i) == SubSeq(seq, 1, i - 1) \o SubSeq(seq, i + 1, Len(seq))

InsertBefore(seq, i, x) ==
    SubSeq(seq, 1, i - 1) \o <<x>> \o SubSeq(seq, i, Len(seq))

\* position of the iterator after `while (itr != end && itr->offset < off) ++itr`
LowerBound(seq, off) ==
    IF \E i \in 1..Len(seq) : ~U32Lt(seq[i].offset, off)
    THEN CHOOSE i \in 1..Len(seq) :
            /\ ~U32Lt(seq[i].offset, off)
            /\ \A j \in 1..(i - 1) : U32Lt(seq[j].offset, off)
    ELSE Len(seq) + 1

\* first position whose offset equals off; 0 when the loop finds none
FindOffset(seq, off) ==
    IF \E i \in 1..Len(seq) : seq[i].offset = off
    THEN CHOOSE i \in 1..Len(seq) :
            /\ seq[i].offset = off
            /\ \A j \in 1..(i - 1) : seq[j].offset # off
    ELSE 0

(***************************************************************************)
(* getList: the uint16_t snapshot <<count, offset, length, ...>>;          *)
(* NullList when the hole list is empty.                                   *)
(***************************************************************************)
NullList == <<>>

getList(holes) ==
    IF holes = <<>> THEN NullList
    ELSE [i \in 1..(1 + Len(holes) * 2) |->
            IF i = 1 THEN Len(holes) % Limb
            ELSE IF i % 2 = 0 THEN U16(holes[i \div 2].offset)
            ELSE U16(holes[(i - 1) \div 2].length)]

(***************************************************************************)
(* getBitmap: the byte buffer <<size low byte, size high byte>> followed   *)
(* by bitmapSizeInBytes bytes.  The buffer is kept sparse: bytes maps the  *)
(* index of every byte the block loop wrote to its value, and every other  *)
(* byte is the 0 of the memset.  A block that reaches past word            *)
(* 8 * bitmapSizeInBytes makes the loop write past the end of the buffer,  *)
(* which is undefined: the call then either dies or returns after having   *)
(* overwritten the heap.                                                   *)
(***************************************************************************)
NullBitmap == [kind |-> "nullptr"]

\* the blocks of allocatedList whose every write stays inside the buffer
InBuffer(block, bitmapSizeInBytes) ==
    \/ block.length = U32(0)
    \/ /\ block.offset[1] = 0
       /\ block.length[1] = 0
       /\ block.offset[2] + block.length[2] <= 8 * bitmapSizeInBytes

\* the wordIndex values of the two loops
WordIndexes(blocks) ==
    UNION { { AsInt(blocks[i].offset) + l :
                l \in 0..(AsInt(blocks[i].length) - 1) } :
            i \in 1..Len(blocks) }

\* the value of byte byteIndex after `|= (1 << bitIndex)` for every
\* wordIndex of the set, bitIndex counting down from 7
RECURSIVE OrBits(_, _, _)
OrBits(wordIndexes, byteIndex, bitIndex) ==
    IF bitIndex < 0 THEN 0
    ELSE (IF (8 * byteIndex + bitIndex) \in wordIndexes
          THEN 2 ^ bitIndex ELSE 0)
         + OrBits(wordIndexes, byteIndex, bitIndex - 1)

\* the outcomes of getBitmap() on the object s
getBitmap(s, w) ==
    IF s.memoryStart = nullptr THEN {NullBitmap}
    ELSE LET numWords == s.memoryLimit \div w
             bitmapSizeInBytes == (numWords + 7) \div 8
         IN  IF \A i \in 1..Len(s.allocatedList) :
                   InBuffer(s.allocatedList[i], bitmapSizeInBytes)
             THEN LET wordIndexes == WordIndexes(s.allocatedList)
                  IN  {[kind |-> "bitmap",
                        size |-> <<bitmapSizeInBytes % 256,
                                   (bitmapSizeInBytes \div 256) % 256>>,
                        bytes |-> [byteIndex \in
                                     {wi \div 8 : wi \in wordIndexes} |->
                                       OrBits(wordIndexes, byteIndex, 7)]]}
             ELSE {[kind |-> "SIGSEGV"], [kind |-> "heap overflow"]}

(***************************************************************************)
(* Placement strategies.  sizeInWords is a C++ int, list a snapshot.       *)
(***************************************************************************)
\* bestFit keeping the last of the equally small holes (<= for <)
RECURSIVE bestFitScan_LastTie(_, _, _, _, _)
bestFitScan_LastTie(sizeInWords, list, i, bestOffset, bestLength) ==
    IF i >= list[1] THEN bestOffset
    ELSE LET offset == list[2 + i * 2]
             length == list[3 + i * 2]
         IN  IF length >= sizeInWords /\ length <= bestLength
             THEN bestFitScan_LastTie(sizeInWords, list, i + 1, offset, length)
             ELSE bestFitScan_LastTie(sizeInWords, list, i + 1, bestOffset,
                                      bestLength)

RECURSIVE bestFitScan(_, _, _, _, _)
bestFitScan(sizeInWords, list, i, bestOffset, bestLength) ==
    IF i >= list[1] THEN bestOffset
    ELSE LET offset == list[2 + i * 2]
             length == list[3 + i * 2]
         IN  IF length >= sizeInWords /\ length < bestLength
             THEN bestFitScan(sizeInWords, list, i + 1, offset, length)
             ELSE bestFitScan(sizeInWords, list, i + 1, bestOffset, bestLength)

bestFit(sizeInWords, list) ==
    bestFitScan(sizeInWords, list, 0, -1, MAX_NUM_WORDS + 1)

\* worstFit keeping the last of the equally large holes (>= for >)
RECURSIVE worstFitScan_LastTie(_, _, _, _, _)
worstFitScan_LastTie(sizeInWords, list, i, bestOffset, bestLength) ==
    IF i >= list[1] THEN bestOffset
    ELSE LET offset == list[2 + i * 2]
             length == list[3 + i * 2]
         IN  IF length >= sizeInWords /\ length >= bestLength
             THEN worstFitScan_LastTie(sizeInWords, list, i + 1, offset, length)
             ELSE worstFitScan_LastTie(sizeInWords, list, i + 1, bestOffset,
                                       bestLength)

RECURSIVE worstFitScan(_, _, _, _, _)
worstFitScan(sizeInWords, list, i, bestOffset, bestLength) ==
    IF i >= list[1] THEN bestOffset
    ELSE LET offset == list[2 + i * 2]
             length == list[3 + i * 2]
         IN  IF length >= sizeInWords /\ length > bestLength
             THEN worstFitScan(sizeInWords, list, i + 1, offset, length)
             ELSE worstFitScan(sizeInWords, list, i + 1, bestOffset, bestLength)

worstFit(sizeInWords, list) ==
    worstFitScan(sizeInWords, list, 0, -1, -1)

\* the std::function call `allocator(sizeInWords, list)`
CallAllocator(f, sizeInWords, list) ==
    IF f = "bestFit" THEN bestFit(sizeInWords, list)
    ELSE IF f = "worstFit" THEN worstFit(sizeInWords, list)
    ELSE CustomResult(f)

(***************************************************************************)
(* The allocator object: s = [memoryStart, memoryLimit, holeList,          *)
(* allocatedList].  Each member function is an operator from the object    *)
(* before the call to the object after it (and the value returned).        *)
(***************************************************************************)
Object == [memoryStart |-> memoryStart, memoryLimit |-> memoryLimit,
           holeList |-> holeList, allocatedList |-> allocatedList]

Extent(o, l) == [offset |-> o, length |-> l]

\* shutdown forgetting allocatedList.clear()
ShutdownResult_KeepBlocks(s) ==
    LET s1 == IF s.memoryStart # nullptr
              THEN [s EXCEPT !.memoryLimit = 0, !.memoryStart = nullptr]
              ELSE s
    IN  [s1 EXCEPT !.holeList = <<>>]

ShutdownResult(s) ==
    LET s1 == IF s.memoryStart # nullptr
              THEN [s EXCEPT !.memoryLimit = 0, !.memoryStart = nullptr]
              ELSE s
    IN  [s1 EXCEPT !.holeList = <<>>, !.allocatedList = <<>>]

\* mmap(nullptr, length, ...): a zero length is EINVAL; otherwise the kernel
\* either maps the region (mmapRet = MmapAddr) or fails (mmapRet = MAP_FAILED)
mmap(length, mmapRet) == IF length = 0 THEN MAP_FAILED ELSE mmapRet

\* initialize validating sizeInWords before it tears the old arena down
InitializeResult_ValidateFirst(s, w, sizeInWords, mmapRet) ==
    IF sizeInWords > MAX_NUM_WORDS
    THEN [st |-> s, ret |-> "invalid_argument"]
    ELSE LET s1 == IF s.memoryStart # nullptr THEN ShutdownResult(s) ELSE s
             limit == sizeInWords * w
             start == mmap(limit, mmapRet)
         IN  IF start = MAP_FAILED
             THEN [st |-> [s1 EXCEPT !.memoryLimit = 0,
                                     !.memoryStart = nullptr],
                   ret |-> "runtime_error"]
             ELSE [st |-> [memoryStart |-> start,
                           memoryLimit |-> limit,
                           holeList |-> <<[offset |-> U32(0),
                                           length |-> U32(sizeInWords)]>>,
                           allocatedList |-> <<>>],
                   ret |-> "ok"]

\* initialize seeding the hole list with the byte count memoryLimit
InitializeResult_ByteLength(s, w, sizeInWords, mmapRet) ==
    LET s1 == IF s.memoryStart # nullptr THEN ShutdownResult(s) ELSE s
    IN  IF sizeInWords > MAX_NUM_WORDS
        THEN [st |-> s1, ret |-> "invalid_argument"]
        ELSE LET limit == sizeInWords * w
                 start == mmap(limit, mmapRet)
             IN  IF start = MAP_FAILED
                 THEN [st |-> [s1 EXCEPT !.memoryLimit = 0,
                                         !.memoryStart = nullptr],
                       ret |-> "runtime_error"]
                 ELSE [st |-> [memoryStart |-> start,
                               memoryLimit |-> limit,
                               holeList |-> <<[offset |-> U32(0),
                                               length |-> U32(limit)]>>,
                               allocatedList |-> <<>>],
                       ret |-> "ok"]

InitializeResult(s, w, sizeInWords, mmapRet) ==
    LET s1 == IF s.memoryStart # nullptr THEN ShutdownResult(s) ELSE s
    IN  IF sizeInWords > MAX_NUM_WORDS
        THEN [st |-> s1, ret |-> "invalid_argument"]
        ELSE LET limit == sizeInWords * w
                 start == mmap(limit, mmapRet)
             IN  IF start = MAP_FAILED
                 THEN [st |-> [s1 EXCEPT !.memoryLimit = 0,
                                         !.memoryStart = nullptr],
                       ret |-> "runtime_error"]
                 ELSE [st |-> [memoryStart |-> start,
                               memoryLimit |-> limit,
                               holeList |-> <<Extent(U32(0), U32(sizeInWords))>>,
                               allocatedList |-> <<>>],
                       ret |-> "ok"]

\* the word count of line 68: (sizeInBytes + wordSize - 1) / wordSize,
\* computed in size_t and stored in an unsigned int
WordCount(sizeInBytes, w) == Narrow32(SizeDiv(SizeAdd(sizeInBytes, w - 1), w))

\* the body of the `if (it->offset == wordOffset)` branch of allocate
Commit(s, w, it, wordOffset, sizeInWords) ==
    LET block == Extent(IntToU32(wordOffset), sizeInWords)
        itr == LowerBound(s.allocatedList, block.offset)
        hole == s.holeList[it]
    IN  [st |-> [s EXCEPT
                  !.allocatedList = InsertBefore(s.allocatedList, itr, block),
                  !.holeList =
                      IF hole.length = sizeInWords
                      THEN Erase(s.holeList, it)
                      ELSE [s.holeList EXCEPT
                              ![it] = Extent(U32Add(hole.offset, sizeInWords),
                                             U32Sub(hole.length, sizeInWords))]],
         ret |-> PtrAdd(s.memoryStart, U32Scale(IntToU32(wordOffset), w))]

\* what allocate hands to the strategy; "none" when it returns before the call
StrategyCall(s, w, f, sizeInBytes) ==
    IF s.memoryStart = nullptr \/ sizeInBytes = SizeT(0)
       \/ getList(s.holeList) = NullList
    THEN [f |-> "none"]
    ELSE LET sizeInWords == AsInt(WordCount(sizeInBytes, w))
             list == getList(s.holeList)
         IN  [f |-> f, sizeInWords |-> sizeInWords, list |-> list,
              result |-> CallAllocator(f, sizeInWords, list)]

\* allocate without the sizeInBytes == 0 half of its first test
AllocateResult_NoZeroTest(s, w, f, sizeInBytes) ==
    IF s.memoryStart = nullptr
    THEN [st |-> s, ret |-> nullptr]
    ELSE LET sizeInWords == WordCount(sizeInBytes, w)
             list == getList(s.holeList)
         IN  IF list = NullList
             THEN [st |-> s, ret |-> nullptr]
             ELSE LET wordOffset == CallAllocator(f, AsInt(sizeInWords), list)
                      it == FindOffset(s.holeList, IntToU32(wordOffset))
                  IN  IF wordOffset = -1 \/ it = 0
                      THEN [st |-> s, ret |-> nullptr]
                      ELSE Commit(s, w, it, wordOffset, sizeInWords)

AllocateResult(s, w, f, sizeInBytes) ==
    IF s.memoryStart = nullptr \/ sizeInBytes = SizeT(0)
    THEN [st |-> s, ret |-> nullptr]
    ELSE LET sizeInWords == WordCount(sizeInBytes, w)
             list == getList(s.holeList)
         IN  IF list = NullList
             THEN [st |-> s, ret |-> nullptr]
             ELSE LET wordOffset == CallAllocator(f, AsInt(sizeInWords), list)
                      it == FindOffset(s.holeList, IntToU32(wordOffset))
                  IN  IF wordOffset = -1 \/ it = 0
                      THEN [st |-> s, ret |-> nullptr]
                      ELSE Commit(s, w, it, wordOffset, sizeInWords)

RECURSIVE mergeScan(_, _)
mergeScan(holes, it) ==
    IF it > Len(holes) THEN holes
    ELSE IF it + 1 <= Len(holes)
            /\ U32Add(holes[it].offset, holes[it].length) = holes[it + 1].offset
         THEN mergeScan(
                Erase([holes EXCEPT ![it].length =
                          U32Add(holes[it].length, holes[it + 1].length)],
                      it + 1),
                it)
         ELSE mergeScan(holes, it + 1)

mergeHoles(holes) == mergeScan(holes, 1)

FreeResult(s, w, address) ==
    IF s.memoryStart = nullptr \/ address = nullptr THEN s
    ELSE LET offsetInBytes == PtrDiff(address, s.memoryStart)
             wordOffset == Narrow32(SizeDiv(offsetInBytes, w))
             it == FindOffset(s.allocatedList, wordOffset)
         IN  IF it = 0 THEN s
             ELSE LET allocatedLength == s.allocatedList[it].length
                      hole == Extent(wordOffset, allocatedLength)
                      itr == LowerBound(s.holeList, hole.offset)
                      s1 == [s EXCEPT
                               !.allocatedList = Erase(s.allocatedList, it),
                               !.holeList = InsertBefore(s.holeList, itr, hole)]
                  IN  IF allocatedLength = U32(0) THEN s1
                      ELSE [s1 EXCEPT !.holeList = mergeHoles(s1.holeList)]

(***************************************************************************)
(* Inputs of the calls.                                                    *)
(***************************************************************************)
\* initialize(sizeInWords): zero, the small capacities, and the two sides
\* of the MAX_NUM_WORDS boundary
InitSizes == (0..MaxCap) \cup {MAX_NUM_WORDS, MAX_NUM_WORDS + 1}

MmapResults == {MmapAddr, MAP_FAILED}

\* allocate(sizeInBytes): the small byte counts, and byte counts whose word
\* count does not fit the unsigned int / int it is stored in:
\*   2^31 * w, (2^32 - 1) * w, 2^32 * w and SIZE_MAX = 2^64 - 1
WideSizes(w) ==
    { <<0, w \div 2, (w % 2) * 32768, 0>>,
      <<0, w - 1, Limb - 1, Limb - w>>,
      <<0, w, 0, 0>>,
      <<Limb - 1, Limb - 1, Limb - 1, Limb - 1>> }

SmallSizes(w) == {SizeT(n) : n \in 0..((MaxCap + 1) * w)}

AllocSizes(w) == SmallSizes(w) \cup WideSizes(w)

\* free(address): nullptr, the byte before the arena, every byte address of
\* the first MaxCap words (and one past), and the first byte of every block
\* that starts inside the largest arena
FreeAddresses(s, w) ==
    {nullptr, MmapAddr - 1}
    \cup {MmapAddr + k : k \in 0..(MaxCap * w)}
    \cup {MmapAddr + s.allocatedList[i].offset[2] * w :
            i \in {j \in 1..Len(s.allocatedList) :
                     s.allocatedList[j].offset[1] = 0}}

(***************************************************************************)
(* The state machine.  last records the most recent call (its name,        *)
(* argument and result), pre the object as it was before that call, fit    *)
(* the strategy call made by the most recent allocate, and wide the number *)
(* of allocate/free calls since the arena's first wide allocate.           *)
(***************************************************************************)
NoFit == [f |-> "none"]

Init ==
    /\ wordSize \in WordSizes
    /\ allocator \in Strategies
    /\ memoryStart = nullptr
    /\ memoryLimit = 0
    /\ holeList = <<>>
    /\ allocatedList = <<>>
    /\ last = [op |-> "construct", arg |-> 0, ret |-> 0]
    /\ pre = [memoryStart |-> nullptr, memoryLimit |-> 0,
              holeList |-> <<>>, allocatedList |-> <<>>]
    /\ fit = NoFit
    /\ wide = 0

Become(st) ==
    /\ memoryStart' = st.memoryStart
    /\ memoryLimit' = st.memoryLimit
    /\ holeList' = st.holeList
    /\ allocatedList' = st.allocatedList
    /\ pre' = Object

Initialize ==
    \E sizeInWords \in InitSizes, mmapRet \in MmapResults :
        LET r == InitializeResult(Object, wordSize, sizeInWords, mmapRet)
        IN  /\ Become(r.st)
            /\ last' = [op |-> "initialize", arg |-> sizeInWords, ret |-> r.ret]
            /\ fit' = NoFit
            /\ wide' = 0
            /\ UNCHANGED <<wordSize, allocator>>

Shutdown ==
    /\ Become(ShutdownResult(Object))
    /\ last' = [op |-> "shutdown", arg |-> 0, ret |-> 0]
    /\ fit' = NoFit
    /\ wide' = 0
    /\ UNCHANGED <<wordSize, allocator>>

\* allocate(sizeInBytes), explored within `budget` calls of an arena's
\* first wide allocate
AllocateWithin(budget) ==
    \E sizeInBytes \in AllocSizes(wordSize) :
        LET r == AllocateResult(Object, wordSize, allocator, sizeInBytes)
            isWide == sizeInBytes \in WideSizes(wordSize) /\ r.ret # nullptr
        IN  /\ wide < budget
            /\ wide' = IF wide > 0 \/ isWide THEN wide + 1 ELSE 0
            /\ Len(r.st.allocatedList) <= MaxBlocks
            /\ \A i \in 1..Len(r.st.allocatedList) :
                  \/ U32Lt(r.st.allocatedList[i].offset, U32(MaxOffset + 1))
                  \/ U32Lt(U32(MAX_NUM_WORDS), r.st.allocatedList[i].offset)
            /\ Become(r.st)
            /\ last' = [op |-> "allocate", arg |-> sizeInBytes, ret |-> r.ret]
            /\ fit' = StrategyCall(Object, wordSize, allocator, sizeInBytes)
            /\ UNCHANGED <<wordSize, allocator>>

Allocate == AllocateWithin(MaxWide)

FreeWithin(budget) ==
    \E address \in FreeAddresses(Object, wordSize) :
        LET st == FreeResult(Object, wordSize, address)
        IN  /\ wide < budget
            /\ wide' = IF wide > 0 THEN wide + 1 ELSE 0
            /\ Len(st.holeList) <= MaxHoles
            /\ Become(st)
            /\ last' = [op |-> "free", arg |-> address, ret |-> 0]
            /\ fit' = NoFit
            /\ UNCHANGED <<wordSize, allocator>>

Free == FreeWithin(MaxWide)

SetAllocatorTo(f) ==
    /\ allocator' = f
    /\ pre' = Object
    /\ last' = [op |-> "setAllocator", arg |-> f, ret |-> 0]
    /\ fit' = NoFit
    /\ UNCHANGED <<wordSize, memoryStart, memoryLimit, holeList,
                   allocatedList, wide>>

SetAllocator == \E f \in Strategies : SetAllocatorTo(f)

\* the two exports; neither assigns a member of the object
Export(op, ret) ==
    /\ pre' = Object
    /\ last' = [op |-> op, arg |-> 0, ret |-> ret]
    /\ fit' = NoFit
    /\ UNCHANGED <<wordSize, allocator, memoryStart, memoryLimit, holeList,
                   allocatedList, wide>>

GetList == Export("getList", getList(holeList))

GetBitmap == \E bitmap \in getBitmap(Object, wordSize) :
                 Export("getBitmap", bitmap)

Next ==
    \/ Initialize
    \/ Shutdown
    \/ Allocate
    \/ Free
    \/ SetAllocator
    \/ GetList
    \/ GetBitmap

Spec == Init /\ [][Next]_vars

(***************************************************************************)
(* The same machine explored MaxDeep calls past an arena's first wide      *)
(* allocate.                                                               *)
(***************************************************************************)
AllocateDeep == AllocateWithin(MaxDeep)

FreeDeep == FreeWithin(MaxDeep)

NextDeep ==
    \/ Initialize
    \/ Shutdown
    \/ AllocateDeep
    \/ FreeDeep
    \/ SetAllocator
    \/ GetList
    \/ GetBitmap

SpecDeep == Init /\ [][NextDeep]_vars

(***************************************************************************)
(* The same machine with caller-supplied strategies.                       *)
(***************************************************************************)
SetCustomAllocator == \E f \in CustomStrategies : SetAllocatorTo(f)

NextCustom == Next \/ SetCustomAllocator

SpecCustom == Init /\ [][NextCustom]_vars

(***************************************************************************)
(* The placement strategies on their own: every call of bestFit and        *)
(* worstFit on a snapshot of up to MaxFitHoles holes in offset order.      *)
(***************************************************************************)
MaxFitHoles == 3

FitOffsets == {0, 10, 20, 30}
FitLengths == {0, 2, 4, 8, MAX_NUM_WORDS}
FitRequests == {-1, 0, 1, 2, 3, 4, 5, 8, 9, MAX_NUM_WORDS, MAX_NUM_WORDS + 1}

\* the members of a set of offsets, in increasing order
RECURSIVE Ascending(_)
Ascending(S) ==
    IF S = {} THEN <<>>
    ELSE LET m == CHOOSE x \in S : \A y \in S : x <= y
         IN  <<m>> \o Ascending(S \ {m})

FitLists ==
    {<<0>>} \cup
    UNION { { getList([i \in 1..Cardinality(S) |->
                         Extent(U32(Ascending(S)[i]), U32(ls[i]))]) :
              ls \in [1..Cardinality(S) -> FitLengths] } :
            S \in {T \in SUBSET FitOffsets :
                     T # {} /\ Cardinality(T) <= MaxFitHoles} }

\* the inputs of one strategy call, before the call
InitFit ==
    /\ wordSize = 1
    /\ allocator = "bestFit"
    /\ memoryStart = nullptr
    /\ memoryLimit = 0
    /\ holeList = <<>>
    /\ allocatedList = <<>>
    /\ last = [op |-> "construct", arg |-> 0, ret |-> 0]
    /\ pre = [memoryStart |-> nullptr, memoryLimit |-> 0,
              holeList |-> <<>>, allocatedList |-> <<>>]
    /\ fit \in [f : {"input"}, sizeInWords : FitRequests, list : FitLists,
                result : {-1}]
    /\ wide = 0

FitBest ==
    /\ fit.f = "input"
    /\ fit' = [fit EXCEPT !.f = "bestFit",
                          !.result = bestFit(fit.sizeInWords, fit.list)]
    /\ UNCHANGED <<wordSize, allocator, memoryStart, memoryLimit, holeList,
                   allocatedList, last, pre, wide>>

FitWorst ==
    /\ fit.f = "input"
    /\ fit' = [fit EXCEPT !.f = "worstFit",
                          !.result = worstFit(fit.sizeInWords, fit.list)]
    /\ UNCHANGED <<wordSize, allocator, memoryStart, memoryLimit, holeList,
                   allocatedList, last, pre, wide>>

NextFit == FitBest \/ FitWorst

SpecFit == InitFit /\ [][NextFit]_vars

(***************************************************************************)
(* Vocabulary of the properties.  Extents are read as the numbers they     *)
(* hold (no wrap-around): an unsigned int <<hi, lo>> is hi * 2^16 + lo.    *)
(***************************************************************************)
Live(s) == s.memoryStart # nullptr

NotLive(s) ==
    /\ s.memoryStart = nullptr
    /\ s.memoryLimit = 0
    /\ s.holeList = <<>>
    /\ s.allocatedList = <<>>

SameLedgers(s, t) ==
    s.holeList = t.holeList /\ s.allocatedList = t.allocatedList

capacityWords == memoryLimit \div wordSize

\* a <= b for unsigned ints
U32Le(a, b) == ~U32Lt(b, a)

\* offset + length <= bound, with no wrap-around
EndsWithin(e, bound) ==
    U32Le(e.offset, bound) /\ U32Le(e.length, U32Sub(bound, e.offset))

\* the extents of both ledgers that hold at least one word
Extents == SelectSeq(holeList \o allocatedList, LAMBDA e : e.length # U32(0))

RECURSIVE SumLengths(_)
SumLengths(seq) ==
    IF seq = <<>> THEN 0 ELSE AsInt(Head(seq).length) + SumLengths(Tail(seq))

\* the i-th field of a snapshot, for i = 0 .. count - 1
SnapOffset(list, i) == list[2 + i * 2]
SnapLength(list, i) == list[3 + i * 2]
Fitting(list, n) == {i \in 0..(list[1] - 1) : SnapLength(list, i) >= n}

(***************************************************************************)
(* C1 - Tiling invariant: while an arena is live, the extents of the hole  *)
(* list and of the allocated list partition [0, capacityWords): every      *)
(* extent lies inside the arena, no two extents share a word, and together *)
(* they hold capacityWords words.                                          *)
(***************************************************************************)
Tiling ==
    Live(Object) =>
        /\ \A i \in 1..Len(Extents) :
              EndsWithin(Extents[i], U32(capacityWords))
        /\ \A i, j \in 1..Len(Extents) :
              i < j =>
                \/ EndsWithin(Extents[i], Extents[j].offset)
                \/ EndsWithin(Extents[j], Extents[i].offset)
        /\ SumLengths(Extents) = capacityWords

(***************************************************************************)
(* C2 - No-adjacency invariant: for every two holes h1, h2 of the hole     *)
(* list with h1.offset < h2.offset, h1.offset + h1.length < h2.offset.     *)
(***************************************************************************)
NoAdjacency ==
    \A i, j \in 1..Len(holeList) :
        U32Lt(holeList[i].offset, holeList[j].offset) =>
            U32Lt(holeList[i].length,
                  U32Sub(holeList[j].offset, holeList[i].offset))

(***************************************************************************)
(* C3 - Allocate/free round trip: when allocate has just returned a        *)
(* non-null address and the next call is free of that address, both        *)
(* ledgers are again what they were before the allocate.                   *)
(***************************************************************************)
RoundTrip ==
    [][(/\ last.op = "allocate"
        /\ last.ret # nullptr
        /\ last'.op = "free"
        /\ last'.arg = last.ret)
       => (holeList' = pre.holeList /\ allocatedList' = pre.allocatedList)]_vars

(***************************************************************************)
(* C4 - Exhaustion: an allocate on a live arena whose required word count  *)
(* ceil(sizeBytes / wordSize) exceeds the length of every hole (an empty   *)
(* hole list included) returns null and leaves both ledgers unchanged.     *)
(***************************************************************************)
\* x % w for a size_t x and a small w >= 1
SizeMod(x, w) == (((((((x[1] % w) * Limb + x[2]) % w) * Limb) + x[3]) % w)
                    * Limb + x[4]) % w

\* ceil(sizeInBytes / w) as a 64-bit number, with no narrowing
RequiredWords(sizeInBytes, w) ==
    IF SizeMod(sizeInBytes, w) = 0 THEN SizeDiv(sizeInBytes, w)
    ELSE SizeAdd(SizeDiv(sizeInBytes, w), 1)

\* a 64-bit word count exceeds an unsigned int length
Exceeds(count, length) ==
    count[1] > 0 \/ count[2] > 0 \/ U32Lt(length, Narrow32(count))

Exhaustion ==
    (/\ last.op = "allocate"
     /\ Live(pre)
     /\ \A i \in 1..Len(pre.holeList) :
           Exceeds(RequiredWords(last.arg, wordSize), pre.holeList[i].length))
    => (last.ret = nullptr /\ SameLedgers(Object, pre))

CapacityBoundary ==
    last.op = "initialize" =>
        /\ last.arg \in 1..MAX_NUM_WORDS => last.ret \in {"ok", "runtime_error"}
        /\ (last.arg = 0 \/ last.arg > MAX_NUM_WORDS)
           => last.ret = "invalid_argument"

(***************************************************************************)
(* C8 - After an initialize that fails, whether or not an arena was live   *)
(* before it, no arena is live: memoryStart is null, memoryLimit is 0 and  *)
(* both ledgers are empty; this stays so through every call that is not an *)
(* initialize, and every allocate made meanwhile returns null.             *)
(***************************************************************************)
FailedInitialize ==
    /\ (last.op = "initialize" /\ last.ret # "ok") => NotLive(Object)
    /\ (last.op \in {"allocate", "free", "shutdown", "setAllocator"}
        /\ NotLive(pre)) => NotLive(Object)
    /\ (last.op = "allocate" /\ NotLive(pre)) => last.ret = nullptr

\* an initialize has failed on a live arena that held blocks and holes
FailedInitializeOnLive ==
    /\ last.op = "initialize"
    /\ last.ret = "invalid_argument"
    /\ Live(pre)
    /\ pre.allocatedList # <<>>
    /\ pre.holeList # <<>>
    /\ NotLive(Object)

(***************************************************************************)
(* C9 - Re-initialization resets the allocator: after every successful     *)
(* initialize(capacityWords), from any prior state, the hole list is the   *)
(* single extent (0, capacityWords) and the allocated list is empty.       *)
(***************************************************************************)
InitializeResets ==
    (last.op = "initialize" /\ last.ret = "ok") =>
        /\ holeList = <<Extent(U32(0), U32(last.arg))>>
        /\ allocatedList = <<>>
        /\ Live(Object)

\* a successful initialize of an arena that was live with blocks and holes
ReinitializedLive ==
    /\ last.op = "initialize"
    /\ last.ret = "ok"
    /\ Live(pre)
    /\ Len(pre.allocatedList) >= 2
    /\ Len(pre.holeList) >= 2
    /\ holeList = <<Extent(U32(0), U32(last.arg))>>

(***************************************************************************)
(* C10 - shutdown is safe in every state: on a live arena it leaves no     *)
(* arena live and both ledgers empty; with no arena live it changes        *)
(* nothing; and while no arena is live every allocate returns null and     *)
(* every free and allocate leaves the object as it was.                    *)
(***************************************************************************)
ShutdownSafe ==
    /\ last.op = "shutdown" => NotLive(Object)
    /\ (last.op = "shutdown" /\ ~Live(pre)) => Object = pre
    /\ (last.op = "allocate" /\ ~Live(pre))
       => (last.ret = nullptr /\ Object = pre)
    /\ (last.op = "free" /\ ~Live(pre)) => Object = pre

\* a shutdown of a live arena that held blocks and holes
ShutdownOfLive ==
    /\ last.op = "shutdown"
    /\ Live(pre)
    /\ pre.allocatedList # <<>>
    /\ pre.holeList # <<>>
    /\ NotLive(Object)

(***************************************************************************)
(* C11 - Unknown free is a no-op: on a live arena, free(address) of an     *)
(* address that is not the first byte (memoryStart + offset * wordSize) of *)
(* any block of the allocated list, an address inside a block included,    *)
(* leaves the hole list and the allocated list unchanged.                  *)
(***************************************************************************)
\* the first bytes of the blocks of s (of those that start below word 2^16:
\* the address of any other block is no argument of a modelled free)
BlockAddresses(s) ==
    { s.memoryStart + s.allocatedList[i].offset[2] * wordSize :
        i \in {j \in 1..Len(s.allocatedList) :
                 s.allocatedList[j].offset[1] = 0} }

UnknownFree ==
    (last.op = "free" /\ Live(pre) /\ last.arg \notin BlockAddresses(pre))
    => SameLedgers(Object, pre)

(***************************************************************************)
(* C12 - Bitmap correctness: getBitmap() on a live arena returns a buffer  *)
(* whose two-byte little-endian prefix is ceil(capacityWords / 8) and in   *)
(* which bit (w % 8) of byte (w \div 8) is set exactly for the words w of  *)
(* [0, capacityWords) that lie inside a block of the allocated list, every *)
(* other bit being clear; with no arena live it returns null.              *)
(***************************************************************************)
\* the word indexes whose bit is set anywhere in the buffer
SetBits(bitmap) ==
    { 8 * byteIndex + bitIndex :
        byteIndex \in DOMAIN bitmap.bytes, bitIndex \in 0..7 } \cap
    { w \in UNION { (8 * byteIndex)..(8 * byteIndex + 7) :
                      byteIndex \in DOMAIN bitmap.bytes } :
        (bitmap.bytes[w \div 8] \div (2 ^ (w % 8))) % 2 = 1 }

\* the words of [0, bound) inside an extent of the sequence
WordsInside(seq, bound) ==
    { w \in UNION { AsInt(seq[i].offset)..
                      (AsInt(seq[i].offset) + AsInt(seq[i].length) - 1) :
                    i \in 1..Len(seq) } : w < bound }

BitmapCorrect ==
    last.op = "getBitmap" =>
        IF ~Live(pre) THEN last.ret = NullBitmap
        ELSE /\ last.ret.kind = "bitmap"
             /\ last.ret.size[1] + 256 * last.ret.size[2]
                  = (capacityWords + 7) \div 8
             /\ \A byteIndex \in DOMAIN last.ret.bytes :
                   byteIndex < (capacityWords + 7) \div 8
             /\ SetBits(last.ret) = WordsInside(allocatedList, capacityWords)

SnapshotFidelity ==
    last.op = "getList" =>
        /\ (last.ret = NullList) <=> (pre.holeList = <<>>)
        /\ last.ret # NullList =>
              /\ last.ret[1] = Len(pre.holeList)
              /\ Len(last.ret) = 1 + 2 * Len(pre.holeList)
              /\ \A i \in 1..Len(pre.holeList) :
                    /\ U32(SnapOffset(last.ret, i - 1)) = pre.holeList[i].offset
                    /\ U32(SnapLength(last.ret, i - 1)) = pre.holeList[i].length
              /\ \A i, j \in 1..Len(pre.holeList) :
                    i < j => SnapOffset(last.ret, i - 1)
                               < SnapOffset(last.ret, j - 1)
        /\ Object = pre

(***************************************************************************)
(* C15 - Allocation commit step: when bestFit or worstFit chooses the hole *)
(* (o, len), the c-th of the hole list, for a request of r words, allocate *)
(* returns memoryStart + o * wordSize and inserts exactly one block (o, r) *)
(* into the allocated list; the c-th hole is removed when len = r and      *)
(* becomes (o + r, len - r) when len > r, and every other hole and every   *)
(* other block is unchanged.                                               *)
(***************************************************************************)
\* the snapshot index the strategy of the call f settles on: the first of
\* the smallest (bestFit) or of the largest (worstFit) fitting holes
ChosenIndex(f) ==
    LET F == Fitting(f.list, f.sizeInWords)
    IN  CHOOSE i \in F : \A j \in F :
            LET d == IF f.f = "bestFit"
                     THEN SnapLength(f.list, j) - SnapLength(f.list, i)
                     ELSE SnapLength(f.list, i) - SnapLength(f.list, j)
            IN  d > 0 \/ (d = 0 /\ i <= j)

\* the request of the call f as the unsigned count allocate records
RequestedWords(f) == IntToU32(f.sizeInWords)

CommitStep ==
    (/\ last.op = "allocate"
     /\ fit.f \in Strategies
     /\ fit.result # -1
     /\ Fitting(fit.list, fit.sizeInWords) # {})
    => LET c == ChosenIndex(fit) + 1
           o == pre.holeList[c].offset
           len == pre.holeList[c].length
           r == RequestedWords(fit)
       IN  /\ o[1] = 0
           /\ last.ret = pre.memoryStart + o[2] * wordSize
           /\ \E k \in 1..Len(allocatedList) :
                 /\ allocatedList[k] = Extent(o, r)
                 /\ Erase(allocatedList, k) = pre.allocatedList
           /\ len = r => holeList = Erase(pre.holeList, c)
           /\ U32Lt(r, len) =>
                 holeList = [pre.holeList EXCEPT
                               ![c] = Extent(U32Add(o, r), U32Sub(len, r))]
           /\ U32Lt(len, r) =>
                 /\ Len(holeList) = Len(pre.holeList)
                 /\ \A j \in 1..Len(holeList) :
                       j # c => holeList[j] = pre.holeList[j]

(***************************************************************************)
(* C16 - Ledger ordering: in every reachable state the offsets of the hole *)
(* list are strictly increasing, and so are the offsets of the allocated   *)
(* list.                                                                   *)
(***************************************************************************)
StrictlyIncreasing(seq) ==
    \A i \in 1..(Len(seq) - 1) : U32Lt(seq[i].offset, seq[i + 1].offset)

LedgerOrdering ==
    StrictlyIncreasing(holeList) /\ StrictlyIncreasing(allocatedList)

(***************************************************************************)
(* C17 - Word rounding: for every sizeInBytes > 0 the word count allocate  *)
(* passes to the strategy is ceil(sizeInBytes / wordSize) exactly, hence   *)
(* at least 1, and the block a successful allocate records has that        *)
(* length.                                                                 *)
(***************************************************************************)
WordRounding ==
    (last.op = "allocate" /\ fit.f # "none") =>
        LET required == RequiredWords(last.arg, wordSize)
        IN  /\ fit.sizeInWords >= 1
            /\ required = <<0, 0, fit.sizeInWords \div Limb,
                            fit.sizeInWords % Limb>>
            /\ last.ret # nullptr =>
                  \E k \in 1..Len(allocatedList) :
                     /\ Erase(allocatedList, k) = pre.allocatedList
                     /\ allocatedList[k].length = Narrow32(required)

(***************************************************************************)
(* C18 - Full coalescing: whenever an arena is live and the allocated list *)
(* is empty, the hole list is the single hole (0, capacityWords); and a    *)
(* free of a block that has a hole ending where it starts and a hole       *)
(* starting where it ends leaves one hole spanning all three.              *)
(***************************************************************************)
FullCoalescing ==
    /\ (Live(Object) /\ allocatedList = <<>>)
       => holeList = <<Extent(U32(0), U32(capacityWords))>>
    /\ last.op = "free" =>
          \A k \in 1..Len(pre.allocatedList) :
          \A l, r \in 1..Len(pre.holeList) :
              LET block == pre.allocatedList[k]
                  left == pre.holeList[l]
                  right == pre.holeList[r]
              IN  (/\ allocatedList = Erase(pre.allocatedList, k)
                   /\ U32Add(left.offset, left.length) = block.offset
                   /\ U32Add(block.offset, block.length) = right.offset)
                  => /\ Len(holeList) = Len(pre.holeList) - 1
                     /\ \E h \in 1..Len(holeList) :
                           holeList[h] =
                             Extent(left.offset,
                                    U32Add(left.length,
                                           U32Add(block.length, right.length)))

(***************************************************************************)
(* C19 - Double free is idempotent: when free(address) has been called on  *)
(* an address allocate returned for a block, a second free(address) as the *)
(* very next call leaves the hole list and the allocated list as the first *)
(* free left them.                                                         *)
(***************************************************************************)
DoubleFree ==
    [][(/\ last.op = "free"
        /\ Live(pre)
        /\ last.arg \in BlockAddresses(pre)
        /\ last'.op = "free"
        /\ last'.arg = last.arg)
       => (holeList' = holeList /\ allocatedList' = allocatedList)]_vars

(***************************************************************************)
(* C20 - Unmatched strategy result: when the strategy returns a value      *)
(* other than -1 that is not the offset of any hole of the hole list,      *)
(* allocate returns null and leaves the hole list and the allocated list   *)
(* unchanged.                                                              *)
(***************************************************************************)
\* the int n is the offset of the extent e
IsOffsetOf(n, e) == n >= 0 /\ U32(n) = e.offset

UnmatchedResult ==
    (/\ last.op = "allocate"
     /\ fit.f # "none"
     /\ fit.result # -1
     /\ \A i \in 1..Len(pre.holeList) :
           ~IsOffsetOf(fit.result, pre.holeList[i]))
    => (last.ret = nullptr /\ SameLedgers(Object, pre))

====
